---------------------------- MODULE Spec2Model ----------------------------
(***************************************************************************)
(* Model of src/riemann_s_master.py (class RiemannS and its driver).       *)
(*                                                                         *)
(* Number representations                                                  *)
(*  - A sample is a record [v, bad]: v the elements, integers here, and    *)
(*    bad the indices of the elements that are not numbers.                *)
(*  - The binary64 values the code obtains by division (np.mean,           *)
(*    diffs / mean, np.linspace) are modelled bit-exactly: a record        *)
(*    [k, s, hi, lo, e] with k in {"num","zero","inf","nan"}, sign s, and  *)
(*    for k = "num" the 53-bit significand M = hi * 2^27 + lo,             *)
(*    2^52 <= M < 2^53, value s * M * 2^(e - 52).  Division rounds to      *)
(*    nearest, ties to even.                                               *)
(*  - exp, log, cos, sin and the sums built on them are library            *)
(*    approximations in the code; they are evaluated here in binary fixed  *)
(*    point with 20 fractional bits (One = 2^20), NaN and infinity kept    *)
(*    apart as [k, v].  A score is [k, m, e] with value (m / One) * 2^e.   *)
(*  - The transform of scan_resonance is evaluated with factors of 14      *)
(*    fractional bits; its magnitudes are integers in units of 2^-14.      *)
(***************************************************************************)
EXTENDS Integers, Sequences, FiniteSets, TLC

(***************************************************************************)
(* Generic helpers                                                         *)
(***************************************************************************)
Abs(x) == IF x < 0 THEN -x ELSE x

Sign(x) == IF x < 0 THEN -1 ELSE 1

RECURSIVE ILog2(_)
\* floor(log2(v)) for v >= 1
ILog2(v) == IF v < 2 THEN 0 ELSE 1 + ILog2(v \div 2)

RECURSIVE SumRange(_, _, _)
\* q[lo] + ... + q[hi], by halves
SumRange(q, lo, hi) ==
    IF lo > hi THEN 0
    ELSE IF lo = hi THEN q[lo]
         ELSE LET mid == (lo + hi) \div 2
              IN  SumRange(q, lo, mid) + SumRange(q, mid + 1, hi)

SumSeq(q) == SumRange(q, 1, Len(q))

(***************************************************************************)
(* binary64: significands as two limbs of 27 bits                    *)
(***************************************************************************)
Limb == 2 ^ 27

\* the leading limb of a normalised 53-bit significand is in [HiMin, 2*HiMin)
HiMin == 2 ^ 25

GE2(a, b) == a[1] > b[1] \/ (a[1] = b[1] /\ a[2] >= b[2])

Sub2(a, b) ==
    IF a[2] >= b[2] THEN <<a[1] - b[1], a[2] - b[2]>>
    ELSE <<a[1] - b[1] - 1, a[2] + Limb - b[2]>>

Dbl2(a) == <<2 * a[1] + (2 * a[2]) \div Limb, (2 * a[2]) % Limb>>

Inc2(a) == IF a[2] + 1 = Limb THEN <<a[1] + 1, 0>> ELSE <<a[1], a[2] + 1>>

FNaN == [k |-> "nan", s |-> 1, hi |-> 0, lo |-> 0, e |-> 0]

FZero == [k |-> "zero", s |-> 1, hi |-> 0, lo |-> 0, e |-> 0]

FInf(sg) == [k |-> "inf", s |-> sg, hi |-> 0, lo |-> 0, e |-> 0]

FNum(sg, mant, expo) ==
    [k |-> "num", s |-> sg, hi |-> mant[1], lo |-> mant[2], e |-> expo]

\* the binary64 value of a machine integer (exact: |v| < 2^31 < 2^53)
FromInt(v) ==
    IF v = 0 THEN FZero
    ELSE LET a == Abs(v)
             ex == ILog2(a)
         IN  IF ex <= 25
             THEN FNum(Sign(v), <<a * 2 ^ (25 - ex), 0>>, ex)
             ELSE FNum(Sign(v), <<a \div 2 ^ (ex - 25),
                                  (a % 2 ^ (ex - 25)) * 2 ^ (52 - ex)>>, ex)

RECURSIVE DivStep(_, _, _)
\* n more quotient bits of r / y by restoring division, on st = <<r, q>> with
\* r < y on entry
DivStep(n, st, y) ==
    IF n = 0 THEN st
    ELSE LET r2 == Dbl2(st[1])
             q2 == Dbl2(st[2])
         IN  IF GE2(r2, y) THEN DivStep(n - 1, <<Sub2(r2, y), Inc2(q2)>>, y)
             ELSE DivStep(n - 1, <<r2, q2>>, y)

\* x / y for two finite non-zero values: 53 quotient bits, then round to
\* nearest, ties to even
DivNum(x, y) ==
    LET mx == <<x.hi, x.lo>>
        my == <<y.hi, y.lo>>
        big == GE2(mx, my)
        r0 == IF big THEN mx ELSE Dbl2(mx)
        qr == DivStep(52, <<Sub2(r0, my), <<0, 1>>>>, my)
        q == qr[2]
        rr == Dbl2(qr[1])
        up == (rr # my /\ GE2(rr, my)) \/ (rr = my /\ q[2] % 2 = 1)
        qq == IF up THEN Inc2(q) ELSE q
        ex == x.e - y.e - (IF big THEN 0 ELSE 1)
    IN  IF qq[1] = 2 * HiMin THEN FNum(x.s * y.s, <<HiMin, 0>>, ex + 1)
        ELSE FNum(x.s * y.s, qq, ex)

\* IEEE-754 division as numpy performs it (errstate warn: no exception)
Div64(x, y) ==
    CASE x.k = "nan" \/ y.k = "nan" -> FNaN
      [] x.k = "inf" -> IF y.k = "inf" THEN FNaN ELSE FInf(x.s * y.s)
      [] y.k = "inf" -> FZero
      [] y.k = "zero" -> IF x.k = "zero" THEN FNaN ELSE FInf(x.s * y.s)
      [] x.k = "zero" -> FZero
      [] OTHER -> DivNum(x, y)

\* x < y and x <= y for two binary64 values, as the comparison operators of
\* the hardware: every comparison with a NaN is false
Key(x) == <<x.e, x.hi, x.lo>>

LexLess(a, b) ==
    \/ a[1] < b[1]
    \/ a[1] = b[1] /\ a[2] < b[2]
    \/ a[1] = b[1] /\ a[2] = b[2] /\ a[3] < b[3]

\* rank of a non-NaN value on the extended real line, by class
Class(x) ==
    CASE x.k = "inf" -> 2 * x.s
      [] x.k = "zero" -> 0
      [] OTHER -> x.s

FLess(x, y) ==
    /\ x.k # "nan" /\ y.k # "nan"
    /\ \/ Class(x) < Class(y)
       \/ Class(x) = Class(y) /\ x.k = "num" /\ x.s = 1 /\ LexLess(Key(x), Key(y))
       \/ Class(x) = Class(y) /\ x.k = "num" /\ x.s = -1 /\ LexLess(Key(y), Key(x))

FEq(x, y) ==
    /\ x.k # "nan" /\ y.k # "nan"
    /\ Class(x) = Class(y)
    /\ (x.k = "num" => Key(x) = Key(y))

FLeq(x, y) == FLess(x, y) \/ FEq(x, y)

(***************************************************************************)
(* RiemannS._unfold (lines 16-20)                                          *)
(***************************************************************************)
\* np.diff
diff(data) == [j \in 1..(Len(data) - 1) |-> data[j + 1] - data[j]]

\* np.mean of an integer-valued array: the sum is exact, one rounding in the
\* division by the length
mean(a) == Div64(FromInt(SumSeq(a)), FromInt(Len(a)))

\* _unfold with the differences divided by their sum instead of their mean
unfold_by_sum(data) ==
    LET diffs == diff(data)
    IN  IF Len(diffs) = 0 THEN <<>>
        ELSE LET m == FromInt(SumSeq(diffs))
                 quot == [d \in {diffs[j] : j \in 1..Len(diffs)} |->
                             Div64(FromInt(d), m)] @@ <<>>
             IN  [i \in 1..Len(diffs) |-> quot[diffs[i]]] @@ <<>>

\* The division is element-wise; equal differences have equal quotients, so the
\* quotient is evaluated once per distinct difference (quot) and looked up.
_unfold(data) ==
    LET diffs == diff(data)
    IN  IF Len(diffs) = 0 THEN <<>>
        ELSE LET m == mean(diffs)
                 quot == [d \in {diffs[j] : j \in 1..Len(diffs)} |->
                             Div64(FromInt(d), m)] @@ <<>>
             IN  [i \in 1..Len(diffs) |-> quot[diffs[i]]] @@ <<>>

(***************************************************************************)
(* Fixed point with 20 fractional bits for the transcendental stage        *)
(***************************************************************************)
One == 2 ^ 20

Half == 2 ^ 10

\* a * b / One for a, b >= 0, by 10-bit halves (no 32-bit overflow while the
\* product is below 2^31)
FxMulU(a, b) ==
    LET ah == a \div Half
        al == a % Half
        bh == b \div Half
        bl == b % Half
    IN  ah * bh + (ah * bl + al * bh) \div Half + (al * bl) \div One

FxMul(a, b) == Sign(a) * Sign(b) * FxMulU(Abs(a), Abs(b))

RECURSIVE FracStep(_, _, _)
\* n more fraction bits of r / b on st = <<r, q>>, r < b
FracStep(n, st, b) ==
    IF n = 0 THEN st[2]
    ELSE IF 2 * st[1] >= b THEN FracStep(n - 1, <<2 * st[1] - b, 2 * st[2] + 1>>, b)
         ELSE FracStep(n - 1, <<2 * st[1], 2 * st[2]>>, b)

\* a * One / b for a >= 0, b > 0
FxDivU(a, b) == (a \div b) * One + FracStep(20, <<a % b, 0>>, b)

\* the value of a finite non-negative binary64 below 2^10, truncated to 20
\* fractional bits
ToFx(x) ==
    IF x.k = "zero" THEN 0
    ELSE IF x.e <= 5 THEN (IF 5 - x.e > 30 THEN 0 ELSE x.hi \div 2 ^ (5 - x.e))
         ELSE x.hi * 2 ^ (x.e - 5) + x.lo \div 2 ^ (32 - x.e)

\* ln(m / One) for One <= m <= 2 * One: 2 * atanh((m - 1) / (m + 1))
LnMant(m) ==
    LET y == FxDivU(m - One, m + One)
        y2 == FxMulU(y, y)
        h == One + FxMulU(y2, One \div 3 + FxMulU(y2, One \div 5 +
                   FxMulU(y2, One \div 7 + FxMulU(y2, One \div 9 +
                   FxMulU(y2, One \div 11 + FxMulU(y2, One \div 13))))))
    IN  2 * FxMulU(y, h)

Ln2 == LnMant(2 * One)

\* np.log of a positive fixed-point value
Ln(x) ==
    LET ex == ILog2(x) - 20
        m == IF ex >= 0 THEN x \div 2 ^ ex ELSE x * 2 ^ (-ex)
    IN  ex * Ln2 + LnMant(m)

RECURSIVE ExpSer(_, _)
\* 1 - r/j * (1 - r/(j+1) * (...)): the alternating series of exp(-r)
ExpSer(j, r) == IF j > 12 THEN One ELSE One - FxMulU(r, ExpSer(j + 1, r)) \div j

\* np.exp(-x): [m, e] with value (m / One) * 2^e and One/2 < m <= One
ExpNeg(x) ==
    LET n == x \div Ln2
    IN  [m |-> ExpSer(1, x - n * Ln2), e |-> -n]

\* pi (np.pi) with 20 fractional bits
PiFx == 3294199

\* cos and sin of r for 0 <= r < pi/2, by their Taylor series in r^2
CosSer(r2) ==
    One - FxMulU(r2, One - FxMulU(r2, One - FxMulU(r2, One - FxMulU(r2,
          One - FxMulU(r2, One - FxMulU(r2, One - r2 \div 182) \div 132)
          \div 90) \div 56) \div 30) \div 12) \div 2

SinSer(r, r2) ==
    FxMulU(r, One - FxMulU(r2, One - FxMulU(r2, One - FxMulU(r2,
          One - FxMulU(r2, One - FxMulU(r2, One - FxMulU(r2, One - r2 \div 210)
          \div 156) \div 110) \div 72) \div 42) \div 20) \div 6)

\* <<cos(th), sin(th)>> for 0 <= th (np.exp(1j * th))
CosSin(th) ==
    LET q == (th \div (PiFx \div 2)) % 4
        r == th % (PiFx \div 2)
        r2 == FxMulU(r, r)
        c == CosSer(r2)
        sn == SinSer(r, r2)
    IN  CASE q = 0 -> <<c, sn>>
          [] q = 1 -> <<-sn, c>>
          [] q = 2 -> <<-c, -sn>>
          [] OTHER -> <<sn, -c>>

RECURSIVE SqrtStep(_, _, _)
\* floor(sqrt(v)) bit by bit, from bit 2^b downwards, on the root r so far
SqrtStep(b, r, v) ==
    IF b < 0 THEN r
    ELSE IF r + 2 ^ b <= v \div (r + 2 ^ b) THEN SqrtStep(b - 1, r + 2 ^ b, v)
         ELSE SqrtStep(b - 1, r, v)

ISqrt(v) == SqrtStep(15, 0, v)

(***************************************************************************)
(* RiemannS.__init__ (lines 10-14)                                         *)
(***************************************************************************)
\* self.A = 32 / (np.pi**2)
InitA == FxDivU(32 * One, FxMulU(PiFx, PiFx))

\* self.B = 4 / np.pi
InitB == FxDivU(4 * One, PiFx)

\* self.resonance_eta = 5.26, in hundredths
EtaHundredths == 526

InitEta == (EtaHundredths * One) \div 100

(***************************************************************************)
(* RiemannS._wigner_pdf (lines 22-24)                                      *)
(***************************************************************************)
_wigner_pdf(selfA, selfB, sv) ==
    LET s2 == FxMulU(sv, sv)
        ex == ExpNeg(FxMulU(selfB, s2))
        v == FxMulU(FxMulU(selfA, s2), ex.m)
    IN  IF -ex.e > 30 THEN 0 ELSE v \div 2 ^ (-ex.e)

(***************************************************************************)
(* np.linspace(0, 3, 40), np.histogram(s, bins, density=True) (lines 40-42)*)
(***************************************************************************)
NBins == 39

\* the 40 edges k * fl(3/39) rounded to binary64, the last one exactly 3.0
bins ==
    <<
       FZero,
       FNum(1, <<41297762, 61946644>>, -4),
       FNum(1, <<41297762, 61946644>>, -3),
       FNum(1, <<61946643, 92919966>>, -3),
       FNum(1, <<41297762, 61946644>>, -2),
       FNum(1, <<51622203, 10324441>>, -2),
       FNum(1, <<61946643, 92919966>>, -2),
       FNum(1, <<36135542, 20648882>>, -1),
       FNum(1, <<41297762, 61946644>>, -1),
       FNum(1, <<46459982, 103244406>>, -1),
       FNum(1, <<51622203, 10324441>>, -1),
       FNum(1, <<56784423, 51622204>>, -1),
       FNum(1, <<61946643, 92919966>>, -1),
       FNum(1, <<33554432, 0>>, 0),
       FNum(1, <<36135542, 20648882>>, 0),
       FNum(1, <<38716652, 41297763>>, 0),
       FNum(1, <<41297762, 61946644>>, 0),
       FNum(1, <<43878872, 82595525>>, 0),
       FNum(1, <<46459982, 103244406>>, 0),
       FNum(1, <<49041092, 123893288>>, 0),
       FNum(1, <<51622203, 10324441>>, 0),
       FNum(1, <<54203313, 30973322>>, 0),
       FNum(1, <<56784423, 51622204>>, 0),
       FNum(1, <<59365533, 72271085>>, 0),
       FNum(1, <<61946643, 92919966>>, 0),
       FNum(1, <<64527753, 113568847>>, 0),
       FNum(1, <<33554432, 0>>, 1),
       FNum(1, <<34844987, 10324441>>, 1),
       FNum(1, <<36135542, 20648882>>, 1),
       FNum(1, <<37426097, 30973322>>, 1),
       FNum(1, <<38716652, 41297763>>, 1),
       FNum(1, <<40007207, 51622203>>, 1),
       FNum(1, <<41297762, 61946644>>, 1),
       FNum(1, <<42588317, 72271085>>, 1),
       FNum(1, <<43878872, 82595525>>, 1),
       FNum(1, <<45169427, 92919966>>, 1),
       FNum(1, <<46459982, 103244406>>, 1),
       FNum(1, <<47750537, 113568847>>, 1),
       FNum(1, <<49041092, 123893288>>, 1),
       FNum(1, <<50331648, 0>>, 1)
    >>

RECURSIVE Search(_, _, _)
\* the k in lo..hi-1 with bins[k] <= x < bins[hi'] by bisection, given
\* bins[lo] <= x < bins[hi]
Search(lo, hi, x) ==
    IF hi - lo = 1 THEN lo
    ELSE LET mid == (lo + hi) \div 2
         IN  IF FLeq(bins[mid], x) THEN Search(mid, hi, x) ELSE Search(lo, mid, x)

\* the bin of x (1..NBins), 0 when x is outside [bins[1], bins[40]] or a NaN;
\* the last bin is closed on the right
BinIndex(x) ==
    IF ~FLeq(bins[1], x) \/ ~FLeq(x, bins[NBins + 1]) THEN 0
    ELSE IF FEq(x, bins[NBins + 1]) THEN NBins
         ELSE Search(1, NBins + 1, x)

\* raw counts per bin
counts(sq) ==
    LET idx == [i \in 1..Len(sq) |-> BinIndex(sq[i])] @@ <<>>
    IN  [b \in 1..NBins |-> Cardinality({i \in 1..Len(sq) : idx[i] = b})] @@ <<>>

\* a fixed-point value, NaN or +infinity
FxNum(val) == [k |-> "num", v |-> val]

FxNaN == [k |-> "nan", v |-> 0]

FxInf == [k |-> "inf", v |-> 0]

\* the width of bin b, np.diff(bin_edges)
db(b) == ToFx(bins[b + 1]) - ToFx(bins[b])

\* n / db / n.sum(): 0/0 is NaN when no value falls in [0, 3]
histogram(sq) ==
    LET n == counts(sq)
        tot == SumSeq(n)
    IN  [b \in 1..NBins |->
            IF tot = 0 THEN FxNaN
            ELSE FxNum(FxDivU(n[b] * One, db(b)) \div tot)] @@ <<>>

\* (bins[:-1] + bins[1:]) / 2
centers == [b \in 1..NBins |-> (ToFx(bins[b]) + ToFx(bins[b + 1])) \div 2] @@ <<>>

(***************************************************************************)
(* RiemannS.analyze_integrity (lines 26-54)                                *)
(***************************************************************************)
\* the threshold of line 32
min_sample == 50

\* epsilon = 1e-10 (line 46) truncated to 20 fractional bits
epsilon == 0

\* the sample left in the order given
unsorted(a) == a

\* np.sort: the element of rank r is placed at index r; equal elements keep
\* their order
sort(a) ==
    LET rank == [i \in 1..Len(a) |->
                    Cardinality({j \in 1..Len(a) :
                                    a[j] < a[i] \/ (a[j] = a[i] /\ j <= i)})] @@ <<>>
    IN  [r \in 1..Len(a) |-> a[CHOOSE i \in 1..Len(a) : rank[i] = r]] @@ <<>>

\* the filter with x >= 0
nonnegative(v) == SelectSeq(v, LAMBDA x : x >= 0)

\* [x for x in input_data if x > 0]
positive(v) == SelectSeq(v, LAMBDA x : x > 0)

FxAdd(x, c) == IF x.k = "num" THEN FxNum(x.v + c) ELSE x

\* scipy.special.rel_entr
rel_entr(x, y) ==
    CASE x.k = "nan" \/ y.k = "nan" -> FxNaN
      [] x.k = "num" /\ y.k = "num" /\ x.v > 0 /\ y.v > 0 ->
             FxNum(FxMul(x.v, Ln(x.v) - Ln(y.v)))
      [] x.k = "num" /\ y.k = "num" /\ x.v = 0 /\ y.v >= 0 -> FxNum(0)
      [] OTHER -> FxInf

\* np.sum: NaN if any term is NaN, else infinite if any term is
FxSum(q) ==
    CASE \E i \in 1..Len(q) : q[i].k = "nan" -> FxNaN
      [] \E i \in 1..Len(q) : q[i].k = "inf" -> FxInf
      [] OTHER -> FxNum(SumSeq([i \in 1..Len(q) |-> q[i].v] @@ <<>>))

\* a score: NaN, zero, or (m / One) * 2^e
ScoreNaN == [k |-> "nan", m |-> 0, e |-> 0]

ScoreZero == [k |-> "zero", m |-> 0, e |-> 0]

ScoreNum(mant, expo) == [k |-> "num", m |-> mant, e |-> expo]

\* 100 * np.exp(-div); binary64 exp underflows to 0 below 2^-1074
ScoreOf(dv) ==
    CASE dv.k = "nan" -> ScoreNaN
      [] dv.k = "inf" -> ScoreZero
      [] OTHER -> LET ex == ExpNeg(dv.v)
                  IN  IF ex.e < -1074 THEN ScoreZero ELSE ScoreNum(100 * ex.m, ex.e)

\* what a call gives back: kind is "None", "ScoreResult", the exception the
\* call raised, or "unset" for a name not yet bound; div is the local of that
\* name, kept beside the returned fields
NoResult(kd) ==
    [kind |-> kd, label |-> <<>>, score |-> ScoreNaN, div |-> FxNaN,
     centers |-> <<>>, hist |-> <<>>, theory |-> <<>>]

ErrLine(label) == <<"[ERROR] Muestra insuficiente para", label>>

\* the threshold one too low, and the threshold made inclusive
TooFewOff(clean) == Len(clean) < min_sample - 1

TooFewInclusive(clean) == Len(clean) <= min_sample

\* len(clean_data) < 50
TooFew(clean) == Len(clean) < min_sample

\* theory = self._wigner_pdf(centers)
TheoryAt(selfA, selfB) ==
    [b \in 1..NBins |-> _wigner_pdf(selfA, selfB, centers[b])] @@ <<>>

\* div = np.sum(rel_entr(hist + epsilon, theory + epsilon))
Divergence(hist, theory) ==
    FxSum([b \in 1..NBins |->
              rel_entr(FxAdd(hist[b], epsilon), FxNum(theory[b] + epsilon))]
          @@ <<>>)

\* What a call of analyze_integrity leaves: ret, the value returned (or the
\* exception); out, the lines printed; clean_data and s, the locals of these
\* names when the call ends.
\* lines 48-54, given div
Scored(label, clean, sp, hist, theory, dv) ==
    [ret |-> [kind |-> "ScoreResult", label |-> label, score |-> ScoreOf(dv),
              div |-> dv, centers |-> centers, hist |-> hist,
              theory |-> theory],
     out |-> <<>>, clean_data |-> clean, s |-> sp]

\* lines 45-47, given hist and theory
Compared(label, clean, sp, hist, theory) ==
    Scored(label, clean, sp, hist, theory, Divergence(hist, theory))

\* lines 40-43, given s
Unfolded(selfA, selfB, label, clean, sp) ==
    Compared(label, clean, sp, histogram(sp), TheoryAt(selfA, selfB))

\* lines 32-37, given clean_data
Cleaned(selfA, selfB, label, clean) ==
    IF TooFew(clean)
    THEN [ret |-> NoResult("None"), out |-> <<ErrLine(label)>>,
          clean_data |-> clean, s |-> <<>>]
    ELSE Unfolded(selfA, selfB, label, clean, _unfold(clean))

\* x > 0 raises TypeError for an element that is not a number
analyze_integrity(selfA, selfB, input_data, label) ==
    IF input_data.bad # {}
    THEN [ret |-> NoResult("TypeError"), out |-> <<>>,
          clean_data |-> <<>>, s |-> <<>>]
    ELSE Cleaned(selfA, selfB, label, sort(positive(input_data.v)))

(***************************************************************************)
(* RiemannS.scan_resonance (lines 56-65)                                   *)
(***************************************************************************)
\* 14 fractional bits for the factors of the transform
Q14(pair) == <<pair[1] \div 64, pair[2] \div 64>>

\* quantum_filter[t] = np.exp(1j * eta / (t + 1)), t = 0..n-1 at index t+1
quantum_filter(selfEta, n) ==
    [i \in 1..n |-> Q14(CosSin(selfEta \div i))] @@ <<>>

\* exp(-2 pi i j / n), j = 0..n-1 at index j+1
twiddle(n) ==
    [i \in 1..n |-> LET cs == CosSin((2 * PiFx * (i - 1)) \div n)
                    IN  Q14(<<cs[1], -cs[2]>>)] @@ <<>>

\* data[i] * filter[i] * w^(k (i-1)) as <<re, im>>
DftTerm(i, kf, data, flt, tw) ==
    LET f == flt[i]
        w == tw[((kf * (i - 1)) % Len(data)) + 1]
    IN  <<data[i] * ((f[1] * w[1] - f[2] * w[2]) \div 16384),
          data[i] * ((f[1] * w[2] + f[2] * w[1]) \div 16384)>>

RECURSIVE DftSum(_, _, _, _, _, _)
\* the sum of the terms lo..hi, by halves
DftSum(lo, hi, kf, data, flt, tw) ==
    IF lo = hi THEN DftTerm(lo, kf, data, flt, tw)
    ELSE LET mid == (lo + hi) \div 2
             a == DftSum(lo, mid, kf, data, flt, tw)
             b == DftSum(mid + 1, hi, kf, data, flt, tw)
         IN  <<a[1] + b[1], a[2] + b[2]>>

\* np.abs of a complex value: sqrt(re^2 + im^2), scaled against overflow
Magnitude(z) ==
    LET a == Abs(z[1])
        b == Abs(z[2])
        big == IF a > b THEN a ELSE b
        sh == IF big < 32768 THEN 0 ELSE ILog2(big) - 14
        as == a \div 2 ^ sh
        bs == b \div 2 ^ sh
    IN  ISqrt(as * as + bs * bs) * 2 ^ sh

\* np.abs(np.fft.fft(data * quantum_filter)) in units of 2^-14
transform(selfEta, data) ==
    LET n == Len(data)
        flt == quantum_filter(selfEta, n)
        tw == twiddle(n)
    IN  [kk \in 1..n |-> Magnitude(DftSum(1, n, kk - 1, data, flt, tw))] @@ <<>>

ScanLabel(selfEta) == <<"Resonancia (Eta=", selfEta, ")">>

\* line 65, given filtered
Filtered(selfA, selfB, selfEta, mags) ==
    [filtered |-> mags] @@
    analyze_integrity(selfA, selfB, [v |-> mags, bad |-> {}], ScanLabel(selfEta))

\* data * quantum_filter raises for a non-numeric element, np.fft.fft raises
\* ValueError for zero data points; filtered is the local of that name
scan_resonance(selfA, selfB, selfEta, data) ==
    CASE data.bad # {} ->
           [ret |-> NoResult("TypeError"), out |-> <<>>, clean_data |-> <<>>,
            s |-> <<>>, filtered |-> <<>>]
      [] Len(data.v) = 0 ->
           [ret |-> NoResult("ValueError"), out |-> <<>>, clean_data |-> <<>>,
            s |-> <<>>, filtered |-> <<>>]
      [] OTHER -> Filtered(selfA, selfB, selfEta, transform(selfEta, data.v))

(***************************************************************************)
(* RiemannS.generate_report (lines 67-76)                                  *)
(***************************************************************************)
\* score > c and score < c for a whole number c >= 1; false for a NaN score
ScoreGt(sc, c) ==
    /\ sc.k = "num"
    /\ -sc.e <= 30
    /\ LET p == 2 ^ (-sc.e)
           q == sc.m \div p
       IN  q > c * One \/ (q = c * One /\ sc.m % p > 0)

ScoreLt(sc, c) ==
    \/ sc.k = "zero"
    \/ sc.k = "num" /\ (-sc.e > 30 \/ sc.m \div 2 ^ (-sc.e) < c * One)

\* f"{score:.2f}": the score in hundredths, rounded to nearest
Fmt2(sc) ==
    CASE sc.k = "nan" -> <<"nan">>
      [] sc.k = "zero" -> <<0>>
      [] OTHER ->
           LET t == 100 * (sc.m \div Half) + (100 * (sc.m % Half)) \div Half
               k == 10 - sc.e
           IN  IF k > 30 THEN <<0>> ELSE <<(t + 2 ^ (k - 1)) \div 2 ^ k>>

Robusto == "SISTEMA ROBUSTO (GUE - Natural)"

Ruido == "RUIDO O FRACTURA (Poisson - Aleatorio)"

Transicion == "TRANSICION / SOSPECHOSO"

\* the verdict with both thresholds made inclusive
veredictoInclusive(score) ==
    IF ScoreGt(score, 80) \/ score = ScoreNum(80 * One, 0) THEN Robusto
    ELSE IF ScoreLt(score, 30) \/ score = ScoreNum(30 * One, 0) THEN Ruido
    ELSE Transicion

\* the if / elif / else of lines 73-75
veredicto(score) ==
    IF ScoreGt(score, 80) THEN Robusto
    ELSE IF ScoreLt(score, 30) THEN Ruido
    ELSE Transicion

\* the lines printed; "if not result: return" prints nothing for None
generate_report(result) ==
    IF result.kind = "None" THEN <<>>
    ELSE << <<"REPORTE RIEMANN-S:", result.label>>,
            <<"Integridad Estructural:", Fmt2(result.score), "%">>,
            <<"ESTADO:", veredicto(result.score)>> >>

(***************************************************************************)
(* The samples the driver hands to the analyzer (line 84 draws one at      *)
(* random; here they are drawn from a bounded family)                      *)
(***************************************************************************)
\* lengths 0..SmallLen and min_sample-1..MaxLen
SmallLen == 1

MaxLen == 51

\* the largest step between neighbours of a ramp
MaxSlope == 1

\* the rise of the last element of a "jump" sample
Jump == 200

Lens == (0..SmallLen) \cup ((min_sample - 1)..MaxLen)

Offsets == -1..1

Shapes == {"ramp", "pairs", "down", "jump"}

\* <<step, shape>>: constant, falling ramp, and every shape at every step
Patterns ==
    {<<0, "ramp">>, <<-1, "ramp">>} \cup ((1..MaxSlope) \X Shapes)

\* element i of a sample of length n
Elem(n, c0, c1, shape, i) ==
    c0 + c1 * (CASE shape = "ramp" -> i - 1
                 [] shape = "pairs" -> (i - 1) \div 2
                 [] shape = "down" -> n - i
                 [] OTHER -> (i - 1) + (IF i = n THEN Jump ELSE 0))

MkSample(n, c0, c1, shape) == [i \in 1..n |-> Elem(n, c0, c1, shape, i)] @@ <<>>

\* v: the elements (0 at the index of an element that is not a number),
\* bad: the indices of the elements that are not numbers
NumericSamples ==
    {[v |-> MkSample(n, c0, pt[1], pt[2]), bad |-> {}] :
        n \in Lens, c0 \in Offsets, pt \in Patterns}

NonNumericSamples ==
    {[v |-> MkSample(n, c0, 0, "ramp"), bad |-> {p}] :
        n \in Lens \ {0}, c0 \in Offsets, p \in {1}}

Samples == NumericSamples \cup NonNumericSamples

Labels == {<<"Muestra">>, <<"Test Ruido">>}

(***************************************************************************)
(* State: the analyzer's fields, the driver's names (lines 84-92), what    *)
(* the last call printed, and the locals of the last call                  *)
(***************************************************************************)
VARIABLES A, B, resonance_eta, data_test, label, res1, res2, result, stdout,
          op, clean_data, s, filtered, edits

vars == <<A, B, resonance_eta, data_test, label, res1, res2, result, stdout,
          op, clean_data, s, filtered, edits>>

self == <<A, B, resonance_eta>>

Unset == NoResult("unset")

\* engine = RiemannS(), before any call
Init ==
    /\ A = InitA
    /\ B = InitB
    /\ resonance_eta = InitEta
    /\ data_test \in Samples
    /\ label = <<>>
    /\ res1 = Unset
    /\ res2 = Unset
    /\ result = Unset
    /\ stdout = <<>>
    /\ op = "init"
    /\ clean_data = <<>>
    /\ s = <<>>
    /\ filtered = <<>>
    /\ edits = 0

\* a new run of the driver on the same engine: line 84
NewData(d) ==
    /\ data_test' = d
    /\ label' = <<>>
    /\ res1' = Unset
    /\ res2' = Unset
    /\ result' = Unset
    /\ stdout' = <<>>
    /\ op' = "init"
    /\ clean_data' = <<>>
    /\ s' = <<>>
    /\ filtered' = <<>>
    /\ UNCHANGED <<self, edits>>

\* what a call of analyze_integrity returning r leaves behind
BindScore(r, lb) ==
    /\ res1' = r.ret
    /\ label' = lb
    /\ stdout' = r.out
    /\ clean_data' = r.clean_data
    /\ s' = r.s
    /\ op' = "score"
    /\ UNCHANGED <<self, res2, result, filtered>>

\* res1 = engine.analyze_integrity(data_test, lb): line 87
Analyze(lb) ==
    /\ BindScore(analyze_integrity(A, B, data_test, lb), lb)
    /\ UNCHANGED <<data_test, edits>>

\* a scan that also retunes the analyzer
Bind2Drift(r) ==
    /\ res2' = r.ret
    /\ stdout' = r.out
    /\ clean_data' = r.clean_data
    /\ s' = r.s
    /\ filtered' = r.filtered
    /\ op' = "scan"
    /\ A' = A + 1
    /\ UNCHANGED <<B, resonance_eta, data_test, label, res1, result, edits>>

\* what a call of scan_resonance returning r leaves behind
Bind2(r) ==
    /\ res2' = r.ret
    /\ stdout' = r.out
    /\ clean_data' = r.clean_data
    /\ s' = r.s
    /\ filtered' = r.filtered
    /\ op' = "scan"
    /\ UNCHANGED <<self, data_test, label, res1, result, edits>>

\* res2 = engine.scan_resonance(data_test): line 91, once per data set
Scan ==
    /\ res2 = Unset
    /\ Bind2(scan_resonance(A, B, resonance_eta, data_test))

\* engine.generate_report(r): lines 88 and 92; a call that raised bound no name
Report(r) ==
    /\ r.kind \in {"None", "ScoreResult"}
    /\ result' = r
    /\ stdout' = generate_report(r)
    /\ op' = "report"
    /\ UNCHANGED <<self, data_test, label, res1, res2, clean_data, s, filtered,
                   edits>>

Next ==
    \/ \E d \in Samples : NewData(d)
    \/ \E lb \in Labels : Analyze(lb)
    \/ Scan
    \/ \E r \in {res1, res2} : Report(r)

Spec == Init /\ [][Next]_vars

(***************************************************************************)
(* The report step on its own: generate_report takes any result record     *)
(***************************************************************************)
\* scores are drawn in steps of 1/ScoreDen, whole and halved
ScoreDen == 4

Scores ==
    {ScoreNum((j * One) \div ScoreDen, -e) : j \in 1..(100 * ScoreDen), e \in 0..1}
        \cup {ScoreNaN, ScoreZero}

ReportInputs ==
    {[kind |-> "ScoreResult", label |-> <<"Muestra">>, score |-> sc,
      div |-> FxNaN, centers |-> centers, hist |-> <<>>, theory |-> <<>>] :
        sc \in Scores} \cup {NoResult("None")}

InitReport == Init /\ data_test = [v |-> <<>>, bad |-> {}]

NextReport == \E r \in ReportInputs : Report(r)

SpecReport == InitReport /\ [][NextReport]_vars

(***************************************************************************)
(* The caller scoring rearranged and padded copies of one sample           *)
(***************************************************************************)
\* how many times the caller edits the sample
MaxEdits == 1

Reverse(v) == [i \in 1..Len(v) |-> v[Len(v) + 1 - i]] @@ <<>>

Rotate(v) == IF v = <<>> THEN v ELSE Tail(v) \o <<Head(v)>>

\* permutations, zero or negative elements put in or taken out, and one
\* edit that adds a positive element
Variants(v) ==
    {Reverse(v), Rotate(v), v \o <<0>>, <<-1>> \o v,
     SelectSeq(v, LAMBDA x : x > 0), v \o <<Len(v)>>}

RelSamples == {d \in NumericSamples : Len(d.v) >= min_sample - 1}

InitRel == Init /\ data_test \in RelSamples

\* res1 = engine.analyze_integrity(v2, label) on an edited copy v2
Rescore(v2) ==
    /\ res1 # Unset
    /\ edits < MaxEdits
    /\ edits' = edits + 1
    /\ data_test' = [v |-> v2, bad |-> {}]
    /\ BindScore(analyze_integrity(A, B, [v |-> v2, bad |-> {}], label), label)

FirstScore == res1 = Unset /\ Analyze(<<"Muestra">>)

NextRel ==
    \/ FirstScore
    \/ \E v2 \in Variants(data_test.v) : Rescore(v2)

SpecRel == InitRel /\ [][NextRel]_vars

(***************************************************************************)
(* Exact sums of binary64 values, for the properties of _unfold: whole     *)
(* numbers as seven places of 15 bits, lowest first                        *)
(***************************************************************************)
Places == 1..7

Base == 2 ^ 15

BFromInt(k) ==
    [i \in Places |-> CASE i = 1 -> k % Base
                        [] i = 2 -> (k \div Base) % Base
                        [] i = 3 -> k \div (Base * Base)
                        [] OTHER -> 0]

\* the 53-bit significand hi * 2^27 + lo of a binary64 value
BMant(x) ==
    [i \in Places |-> CASE i = 1 -> x.lo % Base
                        [] i = 2 -> x.lo \div Base + (x.hi % 8) * 4096
                        [] i = 3 -> (x.hi \div 8) % Base
                        [] i = 4 -> x.hi \div 262144
                        [] OTHER -> 0]

\* x * 2^n
BShl(x, n) ==
    LET q == n \div 15
        f == 2 ^ (n % 15)
    IN  [i \in Places |->
            (IF i - q \in Places THEN (x[i - q] * f) % Base ELSE 0)
          + (IF i - q - 1 \in Places THEN (x[i - q - 1] * f) \div Base ELSE 0)]

RECURSIVE Carry(_, _, _)
\* the places of x from i upwards with carry c brought in
Carry(x, i, c) ==
    IF i > 7 THEN <<>>
    ELSE <<(x[i] + c) % Base>> \o Carry(x, i + 1, (x[i] + c) \div Base)

\* the sum of a sequence of such numbers
BSum(q) ==
    Carry([i \in Places |-> SumSeq([j \in 1..Len(q) |-> q[j][i]] @@ <<>>)], 1, 0)

BLeq(x, y) ==
    x = y \/ \E i \in Places : x[i] < y[i] /\ \A j \in (i + 1)..7 : x[j] = y[j]

\* the indices of the non-zero elements of a spacing sequence
NonZero(sq) == {i \in 1..Len(sq) : sq[i].k = "num"}

\* the least binary exponent among the non-zero elements, or 0 if that is
\* less
MinExp(sq) ==
    CHOOSE e \in {sq[i].e : i \in NonZero(sq)} \cup {0} :
        \A i \in NonZero(sq) : e <= sq[i].e /\ e <= 0

\* the exact sum of the elements, in units of 2^(MinExp - 52)
ExactSum(sq) ==
    LET em == MinExp(sq)
    IN  BSum([i \in 1..Len(sq) |->
                 IF sq[i].k = "num" THEN BShl(BMant(sq[i]), sq[i].e - em)
                 ELSE BFromInt(0)] @@ <<>>)

\* the whole number k in the same units
InUnits(sq, k) == BShl(BFromInt(k), 52 - MinExp(sq))

\* k * 2^-52 in the same units
UlpsInUnits(sq, k) == BShl(BFromInt(k), -MinExp(sq))

\* the spacings come from a sample of two or more values that are not all
\* equal, and every spacing is a finite non-negative number
NonDegenerate ==
    /\ op \in {"score", "scan"}
    /\ s # <<>>
    /\ Len(clean_data) >= 2
    /\ \E i \in 1..(Len(clean_data) - 1) : clean_data[i + 1] # clean_data[i]

(***************************************************************************)
(* Properties                                                              *)
(***************************************************************************)
\* the number of strictly positive elements
PosCount(v) == Cardinality({i \in 1..Len(v) : v[i] > 0})

Numeric(d) == d.bad = {}

AllZero(v) == \A i \in 1..Len(v) : v[i] = 0

\* C1: once score has run on a sample of numbers with fewer than 50 strictly
\* positive elements, it has returned None (never a ScoreResult); zeros and
\* negative elements do not count towards the 50.
C1_FewPositivesNoScore ==
    (res1 # Unset /\ Numeric(data_test) /\ PosCount(data_test.v) < 50)
        => res1.kind = "None"

\* a sample of 50 or more elements of which only 49 are positive, scored
C1_Witness ==
    /\ res1.kind = "None"
    /\ Len(data_test.v) >= 50
    /\ PosCount(data_test.v) = 49

C3_ScoreInRange ==
    res1.kind = "ScoreResult" =>
        /\ res1.score.k = "num"
        /\ res1.score.m > 0
        /\ ~ScoreGt(res1.score, 100)
        /\ res1.div.k = "num"
        /\ res1.div.v >= 0
        /\ (res1.score = ScoreNum(100 * One, 0)) <=> (res1.div.v = 0)

\* 50 or more equal positive values scored: the score is not a number
C3_Witness ==
    /\ res1.kind = "ScoreResult"
    /\ op = "score"
    /\ Len(clean_data) >= 50
    /\ \A i \in 1..Len(clean_data) : clean_data[i] = clean_data[1]
    /\ res1.score.k = "nan"

\* the outcome of the last call of score or scan
LastRet == IF op = "score" THEN res1 ELSE res2

\* the label the last call of score or scan reports under
LastLabel == IF op = "score" THEN label ELSE ScanLabel(resonance_eta)

\* an empty sample, one with only negative elements, or one with an element
\* that is not a number
Unusable(d) ==
    \/ Len(d.v) = 0
    \/ d.bad # {}
    \/ \A i \in 1..Len(d.v) : d.v[i] < 0

\* C4 as stated: score and scan on an empty sample, a negative-only sample or
\* a sample with a non-numeric element end in the insufficient-sample
\* outcome: the diagnostic is printed and None returned, no exception, no
\* ScoreResult.
C4_InsufficientPath ==
    (op \in {"score", "scan"} /\ Unusable(data_test)) =>
        /\ LastRet.kind = "None"
        /\ stdout = <<ErrLine(LastLabel)>>

\* scan on the empty sample raised
C4_Witness ==
    /\ op = "scan"
    /\ data_test = [v |-> <<>>, bad |-> {}]
    /\ res2.kind = "ValueError"

\* score > c and score < c for 30 <= c <= 100, for a score m / One * 2^e with
\* m <= 100 * One and e <= 0, by cross-multiplication
Above(sc, c) == sc.k = "num" /\ -sc.e <= 4 /\ sc.m > c * One * 2 ^ (-sc.e)

Below(sc, c) ==
    \/ sc.k = "zero"
    \/ sc.k = "num" /\ (-sc.e > 4 \/ sc.m < c * One * 2 ^ (-sc.e))

\* C5: after a report of a ScoreResult the verdict printed is exactly one of
\* the three, the robust one exactly when score > 80, the noise one exactly
\* when score < 30, the transitional one for every other score (30 and 80
\* included); after a report of None nothing is printed.
C5_VerdictByScore ==
    op = "report" =>
        IF result.kind = "None" THEN stdout = <<>>
        ELSE /\ Len(stdout) = 3
             /\ stdout[1] = <<"REPORTE RIEMANN-S:", result.label>>
             /\ stdout[3][1] = "ESTADO:"
             /\ stdout[3][2] \in {Robusto, Ruido, Transicion}
             /\ stdout[3][2] = Robusto <=> Above(result.score, 80)
             /\ stdout[3][2] = Ruido <=> Below(result.score, 30)
             /\ stdout[3][2] = Transicion <=>
                   (~Above(result.score, 80) /\ ~Below(result.score, 30))

\* a score of exactly 80 reported as transitional
C5_Witness ==
    /\ op = "report"
    /\ result.kind = "ScoreResult"
    /\ result.score = ScoreNum(80 * One, 0)
    /\ stdout[3] = <<"ESTADO:", Transicion>>

\* C6: once scan has run on a sample of 50 or more zeros, the transformed
\* magnitude sequence is as long as the sample and all zero, and scan has
\* returned None.
C6_ZeroSampleNoScan ==
    (res2 # Unset /\ Numeric(data_test) /\ Len(data_test.v) >= 50
        /\ AllZero(data_test.v))
        => /\ Len(filtered) = Len(data_test.v)
           /\ AllZero(filtered)
           /\ res2.kind = "None"

\* scan has run on 50 or more zeros
C6_Witness ==
    /\ op = "scan"
    /\ Len(data_test.v) >= 50
    /\ AllZero(data_test.v)
    /\ Len(filtered) >= 50
    /\ res2.kind = "None"

\* the histogram area: the sum over the bins of density times bin width
Area(hist) == SumSeq([b \in 1..NBins |-> FxMulU(hist[b].v, db(b))] @@ <<>>)

\* C7 as stated: for the non-empty spacing sequence that score computes, the
\* 39 densities are numbers whose sum times the bin width is 1 (here: to
\* within the truncation of the fixed-point products, 2^-12), also with
\* spacings above 3 and with all differences zero.
C7_HistogramIntegrates ==
    (op = "score" /\ res1.kind = "ScoreResult" /\ s # <<>>) =>
        /\ Len(res1.hist) = 39
        /\ \A b \in 1..39 : res1.hist[b].k = "num"
        /\ Abs(Area(res1.hist) - One) <= One \div 4096

\* all differences zero: every density is NaN
C7_Witness ==
    /\ op = "score"
    /\ res1.kind = "ScoreResult"
    /\ s # <<>>
    /\ \A i \in 1..Len(s) : s[i].k = "nan"
    /\ \A b \in 1..39 : res1.hist[b].k = "nan"

C9_Deterministic ==
    [][/\ A' = A
       /\ B' = B
       /\ resonance_eta' = resonance_eta
       /\ (res1 # Unset /\ res1' # Unset /\ data_test' = data_test
              /\ label' = label) => res1' = res1]_vars

\* score called again after its result was reported and a scan was made
C9_Witness ==
    /\ op = "score"
    /\ res1.kind = "ScoreResult"
    /\ result = res1
    /\ res2.kind = "ScoreResult"

\* the strictly positive values with their multiplicities
PosBag(v) ==
    [x \in {v[i] : i \in {j \in 1..Len(v) : v[j] > 0}} |->
        Cardinality({i \in 1..Len(v) : v[i] = x})]

\* C10: when score is called on two samples with the same multiset of
\* strictly positive values (a permutation, or zeros and negatives put in or
\* taken out), the second call returns what the first returned.
C10_MultisetOnly ==
    [][(res1 # Unset /\ res1' # Unset /\ label' = label
           /\ PosBag(data_test'.v) = PosBag(data_test.v))
          => res1' = res1]_vars

\* a ScoreResult for an edited copy that is out of order and holds an
\* element that is not positive
C10_Witness ==
    /\ edits >= 1
    /\ res1.kind = "ScoreResult"
    /\ \E i \in 1..Len(data_test.v) : data_test.v[i] <= 0
    /\ \E i \in 1..(Len(data_test.v) - 1) : data_test.v[i] > data_test.v[i + 1]

=============================================================================
